---- MODULE Spec2Model ----
(***************************************************************************)
(* Model of tensorflow/lite/delegates/utils/dummy_delegate/                *)
(* dummy_delegate.cc: the DummyDelegate (node selection) and the           *)
(* DummyDelegateKernel (Init / Prepare / Eval with its two kernels).       *)
(*                                                                         *)
(* C++ vectors and arrays are 0-based; the sequences below are 1-based, so *)
(* element i of the code is element i+1 here.  Log entries keep the code's *)
(* 0-based node index in their idx field.                                  *)
(***************************************************************************)
EXTENDS Integers, Sequences, FiniteSets, TLC

VARIABLES
  options_,        \* DummyDelegate::options_ (the DummyDelegateOptions it was created with)
  createdWithNull, \* TRUE iff TfLiteDummyDelegateCreate was called with options == nullptr
  results,         \* per builtin code: the values IsNodeSupportedByDelegate has returned
  seenTypes,       \* per builtin code: the tensor types of the nodes it was asked about
  phase,           \* position of the kernel in the host's lifecycle ("crashed": Eval did not return)
  inputs_,         \* DummyDelegateKernel::inputs_
  outputs_,        \* DummyDelegateKernel::outputs_
  builtin_code_,   \* DummyDelegateKernel::builtin_code_
  node,            \* the delegate node the host passes to Prepare and Eval
  dtype,           \* the element type of the graph's tensors
  tensors0,        \* context->tensors when Eval was entered
  tensors,         \* context->tensors when Eval returned
  status,          \* the TfLiteStatus returned by the last kernel method
  log              \* the kernel calls Eval made, in order

vars == <<options_, createdWithNull, results, seenTypes, phase, inputs_, outputs_,
          builtin_code_, node, dtype, tensors0, tensors, status, log>>

delegateVars == <<options_, createdWithNull, results, seenTypes>>
kernelVars == <<phase, inputs_, outputs_, builtin_code_, node, dtype, tensors0, tensors, status, log>>

----------------------------------------------------------------------------
(* Bounds of the model. *)
MaxNodes == 2      \* nodes in a partition
MaxElems == 2      \* elements in a tensor

----------------------------------------------------------------------------
(* Program constants. *)
kTfLiteBuiltinAdd == 0
kTfLiteBuiltinAveragePool2d == 1
kTfLiteBuiltinFullyConnected == 9
kTfLiteBuiltinMul == 18
kTfLiteBuiltinSub == 41
BuiltinCodes == {kTfLiteBuiltinAdd, kTfLiteBuiltinAveragePool2d,
                 kTfLiteBuiltinFullyConnected, kTfLiteBuiltinMul, kTfLiteBuiltinSub}

kTfLiteOk == 0
kTfLiteError == 1
kTfLiteDelegateError == 2

kTfLiteFloat32 == 1
kTfLiteInt32 == 2
TensorTypes == {kTfLiteFloat32, kTfLiteInt32}

kInputTensor == 0
kWeightsTensor == 1
kOutputTensor == 0

kTfLiteOptionalTensor == -1
InvalidBuiltinCode == -1

----------------------------------------------------------------------------
(* The delegate: options and node selection. *)

TfLiteDummyDelegateOptionsDefault == [allowed_builtin_code |-> InvalidBuiltinCode]

\* options ? *options : TfLiteDummyDelegateOptionsDefault()
\* A caller's options pointer is [null |-> TRUE] or [null |-> FALSE, value |-> struct].
TfLiteDummyDelegateCreate(options) ==
  IF options.null THEN TfLiteDummyDelegateOptionsDefault ELSE options.value

\* The options pointers a caller may pass to TfLiteDummyDelegateCreate.
CallerOptions ==
  {[null |-> TRUE, value |-> TfLiteDummyDelegateOptionsDefault]} \cup
  {[null |-> FALSE, value |-> [allowed_builtin_code |-> c]] :
     c \in BuiltinCodes \cup {InvalidBuiltinCode}}

\* Mutant: the float32-only test the code has commented out is active.
IsNodeSupportedByDelegate_Float32Only(builtin_code, tensorType, options) ==
  builtin_code \in {kTfLiteBuiltinAdd, kTfLiteBuiltinFullyConnected, kTfLiteBuiltinSub}
    /\ tensorType = kTfLiteFloat32

\* switch (registration->builtin_code): true for Add, FullyConnected, Sub.
\* tensorType (the type of the node's input tensors) and options (options_)
\* are what the function could read and does not.
IsNodeSupportedByDelegate(builtin_code, tensorType, options) ==
  CASE builtin_code = kTfLiteBuiltinAdd -> TRUE
    [] builtin_code = kTfLiteBuiltinFullyConnected -> TRUE
    [] builtin_code = kTfLiteBuiltinSub -> TRUE
    [] OTHER -> FALSE

----------------------------------------------------------------------------
(* float arithmetic on the 32-bit words of a tensor's buffer.              *)
(* GetTensorData<float> reads the buffer as IEEE-754 binary32 whatever the *)
(* tensor's type is; a word is kept as the int32 with the same bits.       *)

SignBit(w) == IF w < 0 THEN 1 ELSE 0
\* The low 31 bits of the word: exponent field and fraction.
Magnitude(w) == IF w < 0 THEN (w + 2147483647) + 1 ELSE w
ExpField(w) == Magnitude(w) \div 8388608
Fraction(w) == Magnitude(w) % 8388608
IsNaN(w) == ExpField(w) = 255 /\ Fraction(w) # 0
IsInf(w) == ExpField(w) = 255 /\ Fraction(w) = 0
\* value = Mantissa * 2^(Exponent - 150)
Mantissa(w) == IF ExpField(w) = 0 THEN Fraction(w) ELSE Fraction(w) + 8388608
Exponent(w) == IF ExpField(w) = 0 THEN 1 ELSE ExpField(w)
Word(sign, magnitude) == IF sign = 1 THEN (magnitude - 2147483647) - 1 ELSE magnitude
Negated(w) == Word(1 - SignBit(w), Magnitude(w))
Quieted(w) == IF Fraction(w) < 4194304 THEN w + 4194304 ELSE w
DefaultNaN == Word(1, 255 * 8388608 + 4194304)

\* m / 2^d, the bits shifted out kept as a sticky lowest bit.
ShiftRightSticky(m, d) ==
  IF d >= 31 THEN (IF m # 0 THEN 1 ELSE 0)
  ELSE LET q == m \div (2 ^ d)
       IN IF m % (2 ^ d) # 0 /\ q % 2 = 0 THEN q + 1 ELSE q

\* Bring a sum with three extra low bits into [2^26, 2^27), or to exponent 1.
RECURSIVE Normalized(_, _)
Normalized(s, e) ==
  IF s >= 134217728 THEN Normalized(ShiftRightSticky(s, 1), e + 1)
  ELSE IF s < 67108864 /\ e > 1 /\ s # 0 THEN Normalized(s * 2, e - 1)
  ELSE [s |-> s, e |-> e]

\* Round to nearest, ties to even, and pack.
Rounded(sign, s, e) ==
  LET m0 == s \div 8
      rest == s % 8
      m == IF rest > 4 \/ (rest = 4 /\ m0 % 2 = 1) THEN m0 + 1 ELSE m0
      magnitude == (e - 1) * 8388608 + m
  IN IF s = 0 THEN Word(sign, 0)
     ELSE IF magnitude >= 255 * 8388608 THEN Word(sign, 255 * 8388608)
     ELSE Word(sign, magnitude)

\* a + b for finite a and b.
FiniteAdd(a, b) ==
  LET aBig == Magnitude(a) >= Magnitude(b)
      x == IF aBig THEN a ELSE b
      y == IF aBig THEN b ELSE a
      xs == Mantissa(x) * 8
      ys == ShiftRightSticky(Mantissa(y) * 8, Exponent(x) - Exponent(y))
      same == SignBit(x) = SignBit(y)
      s == IF same THEN xs + ys ELSE xs - ys
      n == Normalized(s, Exponent(x))
  IN IF s = 0 THEN (IF same THEN Word(SignBit(x), 0) ELSE 0)
     ELSE Rounded(SignBit(x), n.s, n.e)

\* Which NaN a + b or a - b is when both operands are NaN is left to the
\* build (IEEE 754 does not fix it, nor does the source).  What the
\* instructions a build computes an element with do:
\*   "first"    SSE addss / subss / addps / subps: the first operand's NaN;
\*   "commuted" SSE with the operands of the (commutative) addition swapped:
\*              the second operand's for +, the first operand's for -;
\*   "x87"      both operands loaded on the x87 stack: the NaN with the
\*              larger significand;
\*   "x87_mem2" input 1 loaded, input 2 the memory operand of fadds / fsubs;
\*   "x87_mem1" input 2 loaded, input 1 the memory operand of fadds / fsubrs.
\* In every build the NaN comes out quiet.
NaNRules == {"first", "commuted", "x87", "x87_mem2", "x87_mem1"}

\* The x87 choice between two NaNs that it treats as quiet: the larger
\* significand; of two that differ only in sign, the positive one.
LargerNaN(a, b) ==
  IF Fraction(Quieted(a)) > Fraction(Quieted(b)) THEN Quieted(a)
  ELSE IF Fraction(Quieted(b)) > Fraction(Quieted(a)) THEN Quieted(b)
  ELSE IF SignBit(a) = 0 THEN Quieted(a)
  ELSE Quieted(b)

\* The x87 choice between a NaN on its stack (the load has made it quiet) and
\* a NaN it reads from memory: a quiet NaN beats a signaling one.
RegisterAndMemory(loaded, memory) ==
  IF Fraction(memory) < 4194304 THEN Quieted(loaded) ELSE LargerNaN(loaded, memory)

\* The float a + b (binary32, round to nearest even), computed by
\* instructions with the given rule for two NaN operands.
FloatAdd(a, b, nan) ==
  IF IsNaN(a) /\ IsNaN(b)
  THEN (IF nan = "x87" THEN LargerNaN(a, b)
        ELSE IF nan = "x87_mem2" THEN RegisterAndMemory(a, b)
        ELSE IF nan = "x87_mem1" THEN RegisterAndMemory(b, a)
        ELSE IF nan = "commuted" THEN Quieted(b)
        ELSE Quieted(a))
  ELSE IF IsNaN(a) THEN Quieted(a)
  ELSE IF IsNaN(b) THEN Quieted(b)
  ELSE IF IsInf(a) THEN (IF IsInf(b) /\ SignBit(a) # SignBit(b) THEN DefaultNaN ELSE a)
  ELSE IF IsInf(b) THEN b
  ELSE FiniteAdd(a, b)

\* The float a - b.
FloatSub(a, b, nan) ==
  IF IsNaN(a) /\ IsNaN(b)
  THEN (IF nan = "x87" THEN LargerNaN(a, b)
        ELSE IF nan = "x87_mem2" THEN RegisterAndMemory(a, b)
        ELSE IF nan = "x87_mem1" THEN RegisterAndMemory(b, a)
        ELSE Quieted(a))
  ELSE IF IsNaN(a) THEN Quieted(a)
  ELSE IF IsNaN(b) THEN Quieted(b)
  ELSE FloatAdd(a, Negated(b), nan)

\* The words input_1[i] + input_2[i] (- for Sub) may store: one word, but
\* when both operands are NaN one per rule, since a build may compute the
\* elements of one loop with different instructions (a vectorised loop with
\* a scalar remainder).
ElementResults(builtin_code, x, y) ==
  {IF builtin_code = kTfLiteBuiltinAdd THEN FloatAdd(x, y, nan) ELSE FloatSub(x, y, nan) :
     nan \in IF IsNaN(x) /\ IsNaN(y) THEN NaNRules ELSE {"first"}}

\* The word of the float with the integer value v, 0 <= v < 2^24.
RECURSIVE Float32OfNat(_, _)
Float32OfNat(v, e) ==
  IF v = 0 THEN 0
  ELSE IF v < 8388608 THEN Float32OfNat(v * 2, e - 1)
  ELSE (e - 1) * 8388608 + v
Float32Of(v) == IF v < 0 THEN Negated(Float32OfNat(-v, 150)) ELSE Float32OfNat(v, 150)

----------------------------------------------------------------------------
(* The host's side: tensors, partitions and the delegate node. *)

\* Tensor indices of a graph of n nodes: 0 and 1 are graph inputs, node k
\* (k = 1..n) writes tensor k+1.
TensorIds(n) == 0 .. (n + 1)

NumElements(t) == Len(t.data)

\* The 32-bit word that holds the value v in a tensor of the given type.
Stored(type, v) == IF type = kTfLiteFloat32 THEN Float32Of(v) ELSE v

\* context->tensors for a graph of n nodes: every tensor has the element type
\* type, tensor t has lens[t] elements, all tensors hold distinct values
\* (element i of tensor t is 3t + i); data is the buffer, word by word.
Context(n, type, lens) ==
  [t \in TensorIds(n) |->
     [type |-> type, data |-> [i \in 1 .. lens[t] |-> Stored(type, 3 * t + i)]]]

Contexts(n, type) ==
  {Context(n, type, lens) : lens \in [TensorIds(n) -> 0 .. MaxElems]}

\* The nodes the host hands over are nodes IsNodeSupportedByDelegate accepted.
DelegatedCodes(type) ==
  {c \in BuiltinCodes : IsNodeSupportedByDelegate(c, type, options_)}

\* A chain of n two-input nodes: node k reads the previous node's output
\* (tensor 0 for the first node) and either tensor 1 or the same tensor again.
Graph(codes, second) ==
  [k \in 1 .. Len(codes) |->
     LET first == IF k = 1 THEN 0 ELSE k
     IN [builtin_code |-> codes[k],
         inputs |-> <<first, IF second = 1 THEN 1 ELSE first>>,
         outputs |-> <<k + 1>>]]

Graphs(type) ==
  UNION {{Graph(codes, second) : codes \in [1 .. n -> DelegatedCodes(type)],
                                 second \in {0, 1}} : n \in 1 .. MaxNodes}

RECURSIVE SortedSeq(_)
SortedSeq(S) ==
  IF S = {} THEN <<>>
  ELSE LET m == CHOOSE x \in S : \A y \in S : x <= y
       IN <<m>> \o SortedSeq(S \ {m})

\* The node that replaces the partition: its inputs are the tensors the
\* partition reads and does not produce, its outputs those it produces and
\* does not read, each list sorted and without duplicates.
DelegateNode(g) ==
  LET ins == UNION {{g[k].inputs[1], g[k].inputs[2]} : k \in 1 .. Len(g)}
      outs == {g[k].outputs[1] : k \in 1 .. Len(g)}
  IN [inputs |-> SortedSeq(ins \ outs), outputs |-> SortedSeq(outs \ ins)]

\* kernel_util's GetInputSafe / GetOutputSafe on a list of tensor indices:
\* an index outside the list, or the optional-tensor marker, is an error.
GetTensorSafe(indices, index) ==
  IF index >= 0 /\ index < Len(indices) /\ indices[index + 1] # kTfLiteOptionalTensor
  THEN [status |-> kTfLiteOk, tensor |-> indices[index + 1]]
  ELSE [status |-> kTfLiteError, tensor |-> kTfLiteOptionalTensor]

----------------------------------------------------------------------------
(* The kernel. *)

\* GetTensorData<float> on all three tensors, then
\* for (i = 0; i < NumElements(input_tensor_1); ++i) output[i] = input_1[i] +/- input_2[i];
\* element by element, through the tensors, so that aliased tensors behave as
\* in the code.  The set of tensor states the loop may leave from element i on.
RECURSIVE ComputeLoop(_, _, _, _, _, _)
ComputeLoop(ts, builtin_code, in1, in2, out, i) ==
  IF i > NumElements(ts[in1]) THEN {ts}
  ELSE UNION {ComputeLoop(written, builtin_code, in1, in2, out, i + 1) :
                written \in {[ts EXCEPT ![out].data[i] = v] :
                               v \in ElementResults(builtin_code, ts[in1].data[i],
                                                    ts[in2].data[i])}}

\* Mutant: the element-count test forgets the output tensor (the writes
\* that would fall outside the output tensor are left out).
ComputeResult_NoOutputCheck(ts, builtin_code, in1, in2, out) ==
  IF NumElements(ts[in1]) # NumElements(ts[in2])
  THEN {[status |-> kTfLiteDelegateError, tensors |-> ts]}
  ELSE {[status |-> kTfLiteOk,
         tensors |-> [ts EXCEPT ![out].data =
                        [i \in 1 .. NumElements(ts[out]) |->
                           IF i > NumElements(ts[in1]) THEN ts[out].data[i]
                           ELSE IF builtin_code = kTfLiteBuiltinAdd
                                THEN FloatAdd(ts[in1].data[i], ts[in2].data[i], "first")
                                ELSE FloatSub(ts[in1].data[i], ts[in2].data[i], "first")]]]}

\* ComputeResult on the tensors with indices in1, in2 and out of ts: the set
\* of its possible results, each the status returned and the tensors left.
ComputeResult(ts, builtin_code, in1, in2, out) ==
  IF NumElements(ts[in1]) # NumElements(ts[in2])
       \/ NumElements(ts[in1]) # NumElements(ts[out])
  THEN {[status |-> kTfLiteDelegateError, tensors |-> ts]}
  ELSE {[status |-> kTfLiteOk, tensors |-> after] :
          after \in ComputeLoop(ts, builtin_code, in1, in2, out, 1)}

\* myAddSub has no return statement after its TF_LITE_ENSURE_EQ: once
\* ComputeResult has returned kTfLiteOk, control flows off the end of a
\* function that returns a value.  What builds make of it:
\*   "ok"        the caller finds kTfLiteOk in the return register;
\*   "error"     the success path is compiled away and the failure branch of
\*               TF_LITE_ENSURE_EQ runs: ComputeResult once more, kTfLiteError;
\*   "no_return" the call does not return (the process is killed).
MissingReturnOutcomes == {"ok", "error", "no_return"}

\* myAddSub for the node at 0-based index idx, in a build with the given
\* outcome of the missing return: the set of its possible results.
\* TF_LITE_ENSURE_EQ(context, a, b), a macro of
\* tensorflow/lite/kernels/kernel_util.h's includes (c/common.h), evaluates
\* a, and when it differs from b evaluates a again for the message and
\* returns kTfLiteError.  compute is what the first ComputeResult returned.
myAddSub(ts, idx, outcome) ==
  LET code == builtin_code_[idx + 1]
      in1 == inputs_[idx + 1][1]
      in2 == inputs_[idx + 1][2]
      out == outputs_[idx + 1][1]
  IN UNION
       {IF r.status # kTfLiteOk \/ outcome = "error"
        THEN {[returned |-> TRUE, status |-> kTfLiteError, compute |-> r.status,
               tensors |-> again.tensors] :
                again \in ComputeResult(r.tensors, code, in1, in2, out)}
        ELSE IF outcome = "ok"
        THEN {[returned |-> TRUE, status |-> kTfLiteOk, compute |-> r.status,
               tensors |-> r.tensors]}
        ELSE {[returned |-> FALSE]} :
          r \in ComputeResult(ts, code, in1, in2, out)}

\* Mutant: the float path zeroes the output tensor.
dummyFullyConnectedFloat_Zero(ts, input, filter, output) ==
  [status |-> kTfLiteOk,
   tensors |-> [ts EXCEPT ![output].data = [i \in 1 .. NumElements(ts[output]) |-> 0]]]

\* dummyFullyConnectedFloat: return kTfLiteOk, nothing else.
dummyFullyConnectedFloat(ts, input, filter, output) ==
  [status |-> kTfLiteOk, tensors |-> ts]

\* dummyFullyConnected on the delegate node n (idx is not used by the code).
\* TF_LITE_ENSURE_OK evaluates its argument once.
dummyFullyConnected(ts, n, idx) ==
  LET input == GetTensorSafe(n.inputs, kInputTensor)
      filter == GetTensorSafe(n.inputs, kWeightsTensor)
      output == GetTensorSafe(n.outputs, kOutputTensor)
  IN IF input.status # kTfLiteOk THEN [status |-> input.status, tensors |-> ts]
     ELSE IF filter.status # kTfLiteOk THEN [status |-> filter.status, tensors |-> ts]
     ELSE IF output.status # kTfLiteOk THEN [status |-> output.status, tensors |-> ts]
     ELSE IF NumElements(ts[output.tensor]) = 0 THEN [status |-> kTfLiteOk, tensors |-> ts]
     ELSE IF ts[filter.tensor].type = kTfLiteFloat32
          THEN dummyFullyConnectedFloat(ts, input.tensor, filter.tensor, output.tensor)
          ELSE [status |-> kTfLiteError, tensors |-> ts]

\* One record of the log: a kernel call on node idx that returned; it took
\* the tensors from before to after and returned status; compute holds what
\* ComputeResult returned inside myAddSub (empty for a fully-connected call).
LogEntry(idx, kernel, r, compute, before) ==
  [idx |-> idx, kernel |-> kernel, status |-> r.status, compute |-> compute,
   before |-> before, after |-> r.tensors]

RECURSIVE EvalLoop(_, _, _, _)
RECURSIVE FullyConnectedCase(_, _, _, _)

\* case kTfLiteBuiltinFullyConnected of Eval's switch for node i, and the
\* rest of the loop after it: the set of results Eval may end with.
\* TF_LITE_ENSURE_EQ makes a call that does not return kTfLiteOk a second
\* time (for its message) and then returns kTfLiteError from Eval.
FullyConnectedCase(i, ts, lg, outcome) ==
  UNION
    {IF f.status # kTfLiteOk
     THEN {[returned |-> TRUE, status |-> kTfLiteError, tensors |-> f2.tensors,
            log |-> lg \o <<LogEntry(i, "dummyFullyConnected", f, {}, ts),
                            LogEntry(i, "dummyFullyConnected", f2, {}, f.tensors)>>] :
             f2 \in {dummyFullyConnected(f.tensors, node, i)}}
     ELSE EvalLoop(i + 1, f.tensors,
                   Append(lg, LogEntry(i, "dummyFullyConnected", f, {}, ts)), outcome) :
       f \in {dummyFullyConnected(ts, node, i)}}

\* case kTfLiteBuiltinAdd / kTfLiteBuiltinSub of Eval's switch for node i.
\* The case has no break: after myAddSub has returned kTfLiteOk the
\* statements of case kTfLiteBuiltinFullyConnected run as well.
AddSubCase(i, ts, lg, outcome) ==
  UNION
    {IF ~a.returned
     THEN {[returned |-> FALSE, log |-> lg]}
     ELSE IF a.status # kTfLiteOk
     THEN {IF a2.returned
           THEN [returned |-> TRUE, status |-> kTfLiteError, tensors |-> a2.tensors,
                 log |-> lg \o <<LogEntry(i, "myAddSub", a, {a.compute}, ts),
                                 LogEntry(i, "myAddSub", a2, {a2.compute}, a.tensors)>>]
           ELSE [returned |-> FALSE,
                 log |-> Append(lg, LogEntry(i, "myAddSub", a, {a.compute}, ts))] :
             a2 \in myAddSub(a.tensors, i, outcome)}
     ELSE FullyConnectedCase(i, a.tensors,
                             Append(lg, LogEntry(i, "myAddSub", a, {a.compute}, ts)),
                             outcome) :
       a \in myAddSub(ts, i, outcome)}

\* The body of Eval's for loop from 0-based i on: the switch on
\* builtin_code_[i]; a code without a case falls to the end of the switch.
EvalLoop(i, ts, lg, outcome) ==
  IF i >= Len(inputs_)
  THEN {[returned |-> TRUE, status |-> kTfLiteOk, tensors |-> ts, log |-> lg]}
  ELSE IF builtin_code_[i + 1] \in {kTfLiteBuiltinAdd, kTfLiteBuiltinSub}
  THEN AddSubCase(i, ts, lg, outcome)
  ELSE IF builtin_code_[i + 1] = kTfLiteBuiltinFullyConnected
  THEN FullyConnectedCase(i, ts, lg, outcome)
  ELSE EvalLoop(i + 1, ts, lg, outcome)

\* DummyDelegateKernel::Init on the partition g.  failAt = 0: every
\* GetNodeAndRegistration call succeeds; failAt = k: the call for the k-th
\* node fails and TF_LITE_ENSURE_EQ returns kTfLiteError, the vectors already
\* resized and the nodes before it recorded.
DummyDelegateKernel_Init(g, failAt) ==
  LET n == Len(g)
      done(k) == failAt = 0 \/ k < failAt
  IN [status |-> IF failAt = 0 THEN kTfLiteOk ELSE kTfLiteError,
      inputs_ |-> [k \in 1 .. n |-> IF done(k) THEN <<g[k].inputs[1], g[k].inputs[2]>> ELSE <<>>],
      outputs_ |-> [k \in 1 .. n |-> IF done(k) THEN <<g[k].outputs[1]>> ELSE <<>>],
      builtin_code_ |-> [k \in 1 .. n |-> IF done(k) THEN g[k].builtin_code ELSE 0]]

----------------------------------------------------------------------------
(* Initial states and actions. *)

IdleKernel ==
  /\ phase = "constructed"
  /\ inputs_ = <<>>
  /\ outputs_ = <<>>
  /\ builtin_code_ = <<>>
  /\ node = [inputs |-> <<>>, outputs |-> <<>>]
  /\ dtype \in TensorTypes
  /\ tensors0 = <<>>
  /\ tensors = <<>>
  /\ status = kTfLiteOk
  /\ log = <<>>

\* A delegate created with any options pointer; no node checked yet.
InitDelegate ==
  /\ \E o \in CallerOptions :
       /\ options_ = TfLiteDummyDelegateCreate(o)
       /\ createdWithNull = o.null
  /\ results = [c \in BuiltinCodes |-> {}]
  /\ seenTypes = [c \in BuiltinCodes |-> {}]
  /\ IdleKernel

\* A delegate created with options == nullptr and the kernel it has just
\* made (CreateDelegateKernelInterface).
Init ==
  /\ options_ = TfLiteDummyDelegateCreate([null |-> TRUE, value |-> TfLiteDummyDelegateOptionsDefault])
  /\ createdWithNull = TRUE
  /\ results = [c \in BuiltinCodes |-> {}]
  /\ seenTypes = [c \in BuiltinCodes |-> {}]
  /\ IdleKernel

\* The host asks whether a node with this builtin code and tensor type is supported.
CheckNode ==
  \E c \in BuiltinCodes, type \in TensorTypes :
    /\ results' = [results EXCEPT ![c] = @ \cup {IsNodeSupportedByDelegate(c, type, options_)}]
    /\ seenTypes' = [seenTypes EXCEPT ![c] = @ \cup {type}]
    /\ UNCHANGED <<options_, createdWithNull>>
    /\ UNCHANGED kernelVars

\* The host initialises the kernel with a partition of supported nodes.
KernelInit ==
  /\ phase = "constructed"
  /\ \E g \in Graphs(dtype) : \E failAt \in 0 .. Len(g) :
       LET r == DummyDelegateKernel_Init(g, failAt)
       IN /\ inputs_' = r.inputs_
          /\ outputs_' = r.outputs_
          /\ builtin_code_' = r.builtin_code_
          /\ status' = r.status
          /\ node' = DelegateNode(g)
          /\ phase' = IF r.status = kTfLiteOk THEN "initialized" ELSE "init_failed"
  /\ UNCHANGED <<dtype, tensors0, tensors, log>>
  /\ UNCHANGED delegateVars

\* DummyDelegateKernel::Prepare: return kTfLiteOk.
Prepare ==
  /\ phase = "initialized"
  /\ phase' = "prepared"
  /\ status' = kTfLiteOk
  /\ UNCHANGED <<inputs_, outputs_, builtin_code_, node, dtype, tensors0, tensors, log>>
  /\ UNCHANGED delegateVars

\* DummyDelegateKernel::Eval on the context the host passes, in a build with
\* one of the outcomes of the missing return.  When the call does not return
\* there is no status and no tensor to look at afterwards; log keeps the
\* kernel calls that had returned.
Eval ==
  /\ phase = "prepared"
  /\ \E ctx \in Contexts(Len(inputs_), dtype) :
     \E outcome \in MissingReturnOutcomes :
     \E r \in EvalLoop(0, ctx, <<>>, outcome) :
          /\ tensors0' = ctx
          /\ log' = r.log
          /\ IF r.returned
             THEN /\ phase' = "evaluated"
                  /\ tensors' = r.tensors
                  /\ status' = r.status
             ELSE /\ phase' = "crashed"
                  /\ UNCHANGED <<tensors, status>>
  /\ UNCHANGED <<inputs_, outputs_, builtin_code_, node, dtype>>
  /\ UNCHANGED delegateVars

Next == KernelInit \/ Prepare \/ Eval

Spec == Init /\ [][Next]_vars

NextDelegate == CheckNode

SpecDelegate == InitDelegate /\ [][NextDelegate]_vars

----------------------------------------------------------------------------
(* Properties. *)

ThreeOpcodes == {kTfLiteBuiltinAdd, kTfLiteBuiltinSub, kTfLiteBuiltinFullyConnected}
AddSubOpcodes == {kTfLiteBuiltinAdd, kTfLiteBuiltinSub}

\* The kernel a three-way dispatch picks for a builtin code.
KernelFor(code) == IF code \in AddSubOpcodes THEN "myAddSub" ELSE "dummyFullyConnected"

Evaluated == phase = "evaluated"
Entries == {log[k] : k \in 1 .. Len(log)}
AddSubEntries == {e \in Entries : e.kernel = "myAddSub"}
FCEntries == {e \in Entries : e.kernel = "dummyFullyConnected"}
In1(e) == inputs_[e.idx + 1][1]
In2(e) == inputs_[e.idx + 1][2]
Out(e) == outputs_[e.idx + 1][1]
CodeOf(e) == builtin_code_[e.idx + 1]
\* The element counts of the node's tensors when the kernel was entered.
SameCounts(e) ==
  /\ NumElements(e.before[In1(e)]) = NumElements(e.before[In2(e)])
  /\ NumElements(e.before[In1(e)]) = NumElements(e.before[Out(e)])

\* C1: IsNodeSupportedByDelegate returns true exactly for the builtin codes
\* Add, Sub and FullyConnected and false for every other code, whatever the
\* node's tensor type and whatever options the delegate was created with.
C1_SupportedIffThreeOpcodes ==
  \A c \in BuiltinCodes : results[c] \subseteq {c \in ThreeOpcodes}

\* C1 witness: the delegate was created with options naming Mul; it has been
\* asked about FullyConnected and about Mul nodes of both tensor types.
C1_Witness ==
  /\ ~createdWithNull
  /\ options_.allowed_builtin_code = kTfLiteBuiltinMul
  /\ seenTypes[kTfLiteBuiltinFullyConnected] = TensorTypes
  /\ results[kTfLiteBuiltinFullyConnected] = {TRUE}
  /\ seenTypes[kTfLiteBuiltinMul] = TensorTypes
  /\ results[kTfLiteBuiltinMul] = {FALSE}

\* C2: a delegate created with the default options (allowed_builtin_code = -1,
\* also what options == nullptr gives) supports no node: IsNodeSupportedByDelegate
\* returns false for every builtin code.
C2_DefaultSupportsNothing ==
  (createdWithNull \/ options_ = TfLiteDummyDelegateOptionsDefault)
    => \A c \in BuiltinCodes : TRUE \notin results[c]

\* C6: the delegate only supports Add and Sub: IsNodeSupportedByDelegate
\* returns true only for the builtin codes Add and Sub.
C6_OnlyAddSub ==
  \A c \in BuiltinCodes : TRUE \in results[c] => c \in AddSubOpcodes

\* The kernels Eval called for node i (0-based).
KernelsOf(i) == {log[k].kernel : k \in {j \in 1 .. Len(log) : log[j].idx = i}}

\* C3: Eval dispatches three ways: for every node it reaches exactly one
\* kernel is invoked, the one for its builtin code; an Add or Sub node never
\* runs the fully-connected kernel.
C3_ExactlyOneKernelPerNode ==
  Evaluated =>
    \A e \in Entries : KernelsOf(e.idx) = {KernelFor(CodeOf(e))}

\* x + y and x - y on int32 values, wrapping.
Int32Add(x, y) ==
  IF x >= 0 /\ y >= 0 /\ x > 2147483647 - y
  THEN ((x - 2147483647) - 1) + (y - 2147483647) - 1
  ELSE IF x < 0 /\ y < 0 /\ x < (-2147483647 - 1) - y
  THEN ((x + 2147483647) + 1) + (y + 2147483647) + 1
  ELSE x + y
Int32Sub(x, y) ==
  IF y = -2147483647 - 1
  THEN (IF x < 0 THEN (x + 2147483647) + 1 ELSE (x - 2147483647) - 1)
  ELSE Int32Add(x, -y)

\* The words that may hold x + y (x - y for Sub) in a tensor of the given
\* type, x and y being words of tensors of that type: one word, but for the
\* float sum or difference of two NaNs, which is either NaN.
TypedResult(type, code, x, y) ==
  IF type = kTfLiteFloat32
  THEN ElementResults(code, x, y)
  ELSE {IF code = kTfLiteBuiltinAdd THEN Int32Add(x, y) ELSE Int32Sub(x, y)}

\* C4: when an Add (Sub) node's two inputs and output have the same element
\* count N, the add/sub path leaves output[i] = input1[i] + input2[i]
\* (input1[i] - input2[i]) for every i < N, element by element and unclamped,
\* the elements being the values the tensors hold, and leaves both input
\* tensors as they were.
C4_AddSubElementwise ==
  Evaluated =>
    \A e \in AddSubEntries :
      SameCounts(e) =>
        /\ NumElements(e.after[Out(e)]) = NumElements(e.before[In1(e)])
        /\ \A i \in 1 .. NumElements(e.before[In1(e)]) :
             e.after[Out(e)].data[i] \in
               TypedResult(e.before[Out(e)].type, CodeOf(e),
                           e.before[In1(e)].data[i], e.before[In2(e)].data[i])
        /\ e.after[In1(e)] = e.before[In1(e)]
        /\ e.after[In2(e)] = e.before[In2(e)]

\* The fully-connected call found its input, filter and output tensors and
\* the filter is float32.
Float32Filter(e) ==
  /\ GetTensorSafe(node.inputs, kInputTensor).status = kTfLiteOk
  /\ GetTensorSafe(node.inputs, kWeightsTensor).status = kTfLiteOk
  /\ GetTensorSafe(node.outputs, kOutputTensor).status = kTfLiteOk
  /\ e.before[GetTensorSafe(node.inputs, kWeightsTensor).tensor].type = kTfLiteFloat32

C5_TensorsUntouched ==
  Evaluated =>
    \A e \in FCEntries :
      /\ e.after = e.before
      /\ Float32Filter(e) => e.status = kTfLiteOk

C5_KernelUntouched ==
  (phase' = "evaluated" /\ \E k \in 1 .. Len(log') : log'[k].kernel = "dummyFullyConnected")
    => /\ inputs_' = inputs_
       /\ outputs_' = outputs_
       /\ builtin_code_' = builtin_code_

\* C5: the fully-connected path computes nothing: a call of dummyFullyConnected
\* leaves every tensor, the output tensor included, and the kernel's inputs_,
\* outputs_ and builtin_code_ as they were, and returns kTfLiteOk when the
\* filter is float32.
C5_FullyConnectedNoOp ==
  []C5_TensorsUntouched /\ [][C5_KernelUntouched]_vars

\* C5 witness: Eval ran the fully-connected path on a FullyConnected node
\* with a float32 filter and a non-empty output tensor.
C5_Witness ==
  /\ Evaluated
  /\ \E e \in FCEntries :
       /\ CodeOf(e) = kTfLiteBuiltinFullyConnected
       /\ Float32Filter(e)
       /\ NumElements(e.before[GetTensorSafe(node.outputs, kOutputTensor).tensor]) > 0
       /\ e.status = kTfLiteOk

\* C7: when the two inputs of an Add/Sub node differ in element count, or the
\* first input and the output do, ComputeResult returns kTfLiteDelegateError
\* and writes nothing, and the Eval call returns kTfLiteError.
C7_MismatchIsError ==
  Evaluated =>
    \A e \in AddSubEntries :
      ~SameCounts(e) =>
        /\ e.compute = {kTfLiteDelegateError}
        /\ e.after = e.before
        /\ status = kTfLiteError

\* C7 witness: the second node of a partition has inputs of equal element
\* count and an output of another count, after a first node that succeeded.
C7_Witness ==
  /\ Evaluated
  /\ \E e \in AddSubEntries :
       /\ e.idx = 1
       /\ NumElements(e.before[In1(e)]) = NumElements(e.before[In2(e)])
       /\ NumElements(e.before[In1(e)]) # NumElements(e.before[Out(e)])
       /\ NumElements(e.before[Out(e)]) > 0
  /\ \E e \in AddSubEntries :
       e.idx = 0 /\ e.after # e.before

\* The status the kernel of node i (0-based) returned: a set, empty if Eval
\* never called that kernel.
NodeKernelStatus(i) ==
  {e.status : e \in {x \in Entries : x.idx = i /\ x.kernel = KernelFor(builtin_code_[i + 1])}}

\* C8: Eval takes the nodes in ascending index and returns kTfLiteOk exactly
\* when every node's kernel returned kTfLiteOk; at the first node whose kernel
\* fails it returns kTfLiteError at once, so that no later node is evaluated.
C8_OkIffEveryKernelOk ==
  Evaluated =>
    /\ \A j, k \in 1 .. Len(log) : j <= k => log[j].idx <= log[k].idx
    /\ (status = kTfLiteOk) <=>
         (\A i \in 0 .. Len(inputs_) - 1 : NodeKernelStatus(i) = {kTfLiteOk})
    /\ \A i \in 0 .. Len(inputs_) - 1 :
         (\E st \in NodeKernelStatus(i) : st # kTfLiteOk) =>
           /\ status = kTfLiteError
           /\ \A e \in Entries : e.idx <= i

====
